---- MODULE Spec2Model ----
(***************************************************************************)
(* A model of manpageParser.py: the switch tokenizer (parse_one_page), the *)
(* bash builtin splitter (parse_bash_page), the SQLite catalogue store     *)
(* (system / command / switch tables) and the run of main, including the   *)
(* timer-guarded --help scraping of handle_helps.                          *)
(*                                                                         *)
(* Texts are strings; a character is a string of length one.               *)
(***************************************************************************)
EXTENDS Integers, Sequences, FiniteSets, Bags, TLC

\* ------------------------------------------------------------------------
\* Characters and the character classes of the regular expressions
\* ------------------------------------------------------------------------

\* The i-th character of s (1-based), "" when i is outside s.
Char(s, i) == IF i >= 1 /\ i <= Len(s) THEN SubSeq(s, i, i) ELSE ""

\* The smallest and the largest number of a set of numbers, 0 if there is
\* none
MinOf(S) == IF S = {} THEN 0 ELSE CHOOSE i \in S : \A j \in S : i <= j

MaxOf(S) == IF S = {} THEN 0 ELSE CHOOSE i \in S : \A j \in S : j <= i

Lowers ==
    {"a","b","c","d","e","f","g","h","i","j","k","l","m",
     "n","o","p","q","r","s","t","u","v","w","x","y","z"}

Uppers ==
    {"A","B","C","D","E","F","G","H","I","J","K","L","M",
     "N","O","P","Q","R","S","T","U","V","W","X","Y","Z"}

Digits == {"0","1","2","3","4","5","6","7","8","9"}

\* \w of a Python 2 byte-string pattern
WordChars == Lowers \cup Uppers \cup Digits \cup {"_"}

\* \s
SpaceChars == {" ", "\t", "\n", "\r", "\f"}

\* [#\?\w\-\+], the characters of a switch after its leading - -- or +
FlagChars == WordChars \cup {"#", "?", "-", "+"}

\* (?:\-{1,2})|(?:\+) can start at a - or a +
FlagStart == {"-", "+"}

\* [\w#\?], what check_regexp wants to see in a switch
CheckChars == WordChars \cup {"#", "?"}

\* [a-zA-Z0-9_\-\+], the identifier of builtin_reg
IdentChars == WordChars \cup {"-", "+"}

\* [\w\.-], the characters of a manual page name
NameChars == WordChars \cup {".", "-"}

\* The last index of the longest run of characters of class cls that starts
\* at index i of s; i - 1 when the character at i is not of the class.
RECURSIVE RunEnd(_, _, _)
RunEnd(s, i, cls) ==
    IF i <= Len(s) /\ Char(s, i) \in cls THEN RunEnd(s, i + 1, cls) ELSE i - 1

\* str.lower() on one character and on a text
LowerOf ==
    [c \in Uppers |->
        CASE c = "A" -> "a" [] c = "B" -> "b" [] c = "C" -> "c" [] c = "D" -> "d"
          [] c = "E" -> "e" [] c = "F" -> "f" [] c = "G" -> "g" [] c = "H" -> "h"
          [] c = "I" -> "i" [] c = "J" -> "j" [] c = "K" -> "k" [] c = "L" -> "l"
          [] c = "M" -> "m" [] c = "N" -> "n" [] c = "O" -> "o" [] c = "P" -> "p"
          [] c = "Q" -> "q" [] c = "R" -> "r" [] c = "S" -> "s" [] c = "T" -> "t"
          [] c = "U" -> "u" [] c = "V" -> "v" [] c = "W" -> "w" [] c = "X" -> "x"
          [] c = "Y" -> "y" [] c = "Z" -> "z"]

RECURSIVE Lower(_)
Lower(s) ==
    IF s = "" THEN ""
    ELSE (IF Head(s) \in Uppers THEN LowerOf[Head(s)] ELSE Head(s)) \o Lower(Tail(s))

\* ------------------------------------------------------------------------
\* parse_one_page: the switch tokenizer
\* ------------------------------------------------------------------------

\* A switch of the second and third group of flag_regex,
\* ((?:\-{1,2})|(?:\+))[#\?\w\-\+]+ : a run of FlagChars that starts with
\* - or + and is at least two characters long.  TRUE when one starts at i.
LongFlagAt(s, i) ==
    /\ Char(s, i) \in FlagStart
    /\ RunEnd(s, i, FlagChars) >= i + 1

\* .*?\s before the third group: the first index m >= p such that no newline
\* lies in p..m-1, the character at m is white space and a switch of two
\* characters or more starts at m + 1; 0 when there is none.
RECURSIVE LazyGap(_, _)
LazyGap(s, m) ==
    IF m > Len(s) THEN 0
    ELSE IF Char(s, m) \in SpaceChars /\ LongFlagAt(s, m + 1) THEN m
    ELSE IF Char(s, m) = "\n" THEN 0
    ELSE LazyGap(s, m + 1)

\* The first alternative of flag_regex tried with its separator character
\* at index j: [ok, g1, g2, g3, end].  The separator is one character that
\* is neither a word character nor a hyphen; the first group is the longest
\* run of FlagChars after it (greedy, and nothing that follows is
\* mandatory); then, optionally, ",?\s" and a second switch, or else any
\* text of the same line, a white space and a third switch.
FlagMatchBody(s, j) ==
    LET k  == j + 1
        e1 == RunEnd(s, k, FlagChars)
        p  == e1 + 1
        q  == IF Char(s, p) = "," THEN p + 1 ELSE p
        m  == LazyGap(s, p)
    IN  IF ~ (j <= Len(s) /\ Char(s, j) \notin (WordChars \cup {"-"})
              /\ Char(s, k) \in FlagStart)
        THEN [ok |-> FALSE, g1 |-> "", g2 |-> "", g3 |-> "", end |-> 0]
        ELSE IF Char(s, q) \in SpaceChars /\ LongFlagAt(s, q + 1)
        THEN [ok |-> TRUE, g1 |-> SubSeq(s, k, e1),
              g2 |-> SubSeq(s, q + 1, RunEnd(s, q + 1, FlagChars)), g3 |-> "",
              end |-> RunEnd(s, q + 1, FlagChars)]
        ELSE IF m # 0
        THEN [ok |-> TRUE, g1 |-> SubSeq(s, k, e1), g2 |-> "",
              g3 |-> SubSeq(s, m + 1, RunEnd(s, m + 1, FlagChars)),
              end |-> RunEnd(s, m + 1, FlagChars)]
        ELSE [ok |-> TRUE, g1 |-> SubSeq(s, k, e1), g2 |-> "", g3 |-> "",
              end |-> e1]

\* flag_regex tried at index i.  The leading \n? is greedy: a newline at i is
\* consumed first and given back when the rest does not match.  The second
\* alternative, [\[\{] followed by a switch, is never the one taken: where it
\* could start, the first alternative matches with [ or { as its separator,
\* so the fourth and fifth group of every match are empty.
FlagMatchAt(s, i) ==
    IF Char(s, i) = "\n" /\ FlagMatchBody(s, i + 1).ok
    THEN FlagMatchBody(s, i + 1)
    ELSE FlagMatchBody(s, i)

\* flag_regex.findall(content): the groups of the non-overlapping matches,
\* leftmost first, the scan resuming behind each match.
RECURSIVE FindAll(_, _)
FindAll(s, i) ==
    IF i > Len(s) THEN << >>
    ELSE LET mt == FlagMatchAt(s, i)
         IN  IF mt.ok
             THEN << <<mt.g1, mt.g2, mt.g3, "", "">> >> \o FindAll(s, mt.end + 1)
             ELSE FindAll(s, i + 1)

\* check_regexp.match(flag), r"(?:.*?[\w#\?]+.*?)|(?:\-\-)" anchored at the
\* start only: some character of CheckChars with no newline before it, or
\* the text starts with two hyphens.
RECURSIVE HasCheckChar(_, _)
HasCheckChar(flag, i) ==
    IF i > Len(flag) THEN FALSE
    ELSE IF Char(flag, i) \in CheckChars THEN TRUE
    ELSE IF Char(flag, i) = "\n" THEN FALSE
    ELSE HasCheckChar(flag, i + 1)

CheckRegexp(flag) ==
    \/ HasCheckChar(flag, 1)
    \/ (Len(flag) >= 2 /\ SubSeq(flag, 1, 2) = "--")

\* The two nested loops of parse_one_page: every group of every match that
\* check_regexp accepts, in order, duplicates included.
RECURSIVE AcceptedOf(_)
AcceptedOf(groups) ==
    IF groups = << >> THEN << >>
    ELSE (IF CheckRegexp(Head(groups)) THEN <<Head(groups)>> ELSE << >>)
         \o AcceptedOf(Tail(groups))

RECURSIVE ParsedFlags(_)
ParsedFlags(flag_list) ==
    IF flag_list = << >> THEN << >>
    ELSE AcceptedOf(Head(flag_list)) \o ParsedFlags(Tail(flag_list))

\* TRUE when x is an element of the list l
InList(x, l) == \E i \in 1..Len(l) : l[i] = x

\* list(set(parsed_flags)): every element once.  Python leaves the order of
\* the result open; the model lists the elements in order of first occurrence.
RECURSIVE ListOfSet(_)
ListOfSet(l) ==
    IF l = << >> THEN << >>
    ELSE LET front == ListOfSet(SubSeq(l, 1, Len(l) - 1))
             last  == l[Len(l)]
         IN  IF InList(last, front) THEN front ELSE Append(front, last)

\* parse_one_page without its "Remove duplicates" step
parse_one_page_keeps_duplicates(content) == ParsedFlags(FindAll(content, 1))

parse_one_page(content) == ListOfSet(ParsedFlags(FindAll(content, 1)))

\* ------------------------------------------------------------------------
\* parse_name, parse_manpage_number, str.splitlines
\* ------------------------------------------------------------------------

\* parse_name: r"^([\w\.-]*)", the leading run of name characters ("" when
\* the text starts with another character).
parse_name(content) == SubSeq(content, 1, RunEnd(content, 1, NameChars))

\* The Python value None, and the two kinds of value the program passes on.
None == [t |-> "none"]
IntV(n) == [t |-> "int", n |-> n]
TextV(s) == [t |-> "text", s |-> s]

\* r".*/man(\d).*" with search: the first .* is greedy, so the group is the
\* digit behind the LAST "/man" of the path that a digit follows; i counts
\* down from the end of the path.  None when there is no such place.  (A
\* path holds no line end.)
RECURSIVE LastManDigit(_, _)
LastManDigit(path, i) ==
    IF i < 1 THEN None
    ELSE IF SubSeq(path, i, i + 3) = "/man" /\ Char(path, i + 4) \in Digits
    THEN TextV(Char(path, i + 4))
    ELSE LastManDigit(path, i - 1)

parse_manpage_number(path) ==
    IF Len(path) < 5 THEN None ELSE LastManDigit(path, Len(path) - 4)

\* The last index of the line that starts at index i of s: the index before
\* the next line end or the end of s.
RECURSIVE LineEnd(_, _)
LineEnd(s, i) ==
    IF i <= Len(s) /\ Char(s, i) # "\n" THEN LineEnd(s, i + 1) ELSE i - 1

\* content.splitlines(): the lines of a text without their line ends; a line
\* end at the very end of the text opens no further line.  (The texts of
\* the model end their lines with \n only.)
RECURSIVE SplitLinesFrom(_, _)
SplitLinesFrom(content, i) ==
    IF i > Len(content) THEN << >>
    ELSE <<SubSeq(content, i, LineEnd(content, i))>>
            \o SplitLinesFrom(content, LineEnd(content, i) + 2)

SplitLines(content) == SplitLinesFrom(content, 1)

\* ------------------------------------------------------------------------
\* get_os_commands, remove_already_found_cmds
\* ------------------------------------------------------------------------

\* output.split('\n'): the pieces between the line ends, the piece behind
\* the last line end included
RECURSIVE SplitNlFrom(_, _)
SplitNlFrom(output, i) ==
    IF LineEnd(output, i) >= Len(output)
    THEN <<SubSeq(output, i, LineEnd(output, i))>>
    ELSE <<SubSeq(output, i, LineEnd(output, i))>>
            \o SplitNlFrom(output, LineEnd(output, i) + 2)

SplitNl(output) == SplitNlFrom(output, 1)

\* list.remove(x): the list without the first element equal to x
RemoveFirst(l, x) ==
    IF MinOf({j \in 1..Len(l) : l[j] = x}) = 0 THEN l
    ELSE SubSeq(l, 1, MinOf({j \in 1..Len(l) : l[j] = x}) - 1)
            \o SubSeq(l, MinOf({j \in 1..Len(l) : l[j] = x}) + 1, Len(l))

\* The loop of get_os_commands over the list it removes from: the pass at
\* index i (the iterator of a list counts indexes) removes the entry there
\* when regex.match (r'[a-zA-Z]' at the start) fails, and the next pass is
\* at i + 1 of the list as it then is.
RECURSIVE FilterLetters(_, _)
FilterLetters(output, i) ==
    IF i > Len(output) THEN output
    ELSE IF Char(output[i], 1) \in Lowers \cup Uppers
    THEN FilterLetters(output, i + 1)
    ELSE FilterLetters(RemoveFirst(output, output[i]), i + 1)

\* get_os_commands on the output of compgen | sort -u
get_os_commands(output) == FilterLetters(SplitNl(output), 1)

\* remove_already_found_cmds written as a loop over cmds itself: the pass at
\* index i removes the entry there when it is in cmds_in_db, and the next
\* pass is at i + 1 of the list as it then is
RECURSIVE RemoveWhileIterating(_, _, _)
RemoveWhileIterating(cmds, cmds_in_db, i) ==
    IF i > Len(cmds) THEN cmds
    ELSE IF \E j \in 1..Len(cmds_in_db) : cmds_in_db[j] = cmds[i]
    THEN RemoveWhileIterating(RemoveFirst(cmds, cmds[i]), cmds_in_db, i + 1)
    ELSE RemoveWhileIterating(cmds, cmds_in_db, i + 1)

remove_already_found_cmds_over_cmds(cmds, cmds_in_db) ==
    RemoveWhileIterating(cmds, cmds_in_db, 1)

\* remove_already_found_cmds: every command of cmds_in_db that is in cmds is
\* removed from it once
RECURSIVE remove_already_found_cmds(_, _)
remove_already_found_cmds(cmds, cmds_in_db) ==
    IF cmds_in_db = << >> THEN cmds
    ELSE remove_already_found_cmds(RemoveFirst(cmds, Head(cmds_in_db)),
                                   Tail(cmds_in_db))

\* ------------------------------------------------------------------------
\* parse_man_pages: the indirection stub
\* ------------------------------------------------------------------------

\* re.match("\.so", check_file)
IsStub(check_file) == Len(check_file) >= 3 /\ SubSeq(check_file, 1, 3) = ".so"

\* reg_name, r".*/(.*?)\.\w{1,5}\.gz": where group 1 can end when it starts
\* behind the "/" at k, that is before a ".", one to five word characters
\* and ".gz"
RegNameEnds(file_path, k) ==
    {e \in k..Len(file_path) :
        /\ Char(file_path, e + 1) = "."
        /\ \E n \in 1..5 :
              /\ \A m \in 1..n : Char(file_path, e + 1 + m) \in WordChars
              /\ e + 4 + n <= Len(file_path)
              /\ SubSeq(file_path, e + 2 + n, e + 4 + n) = ".gz"}

\* reg_name.search(file_path): the greedy .* gives the last "/" behind which
\* the rest matches, the lazy group its shortest text; None without a match
RegName(file_path) ==
    LET k == MaxOf({i \in 1..Len(file_path) :
                      Char(file_path, i) = "/" /\ RegNameEnds(file_path, i) # {}})
    IN  IF k = 0 THEN None
        ELSE TextV(SubSeq(file_path, k + 1, MinOf(RegNameEnds(file_path, k))))

\* new_file_regex, r".* (.*)", searched in check_file: the text behind the
\* last space of the first line that holds a space, with ".gz" added; None
\* when no line holds a space
NewFile(check_file) ==
    LET lines == SplitNl(check_file)
        n     == MinOf({i \in 1..Len(lines) :
                          \E j \in 1..Len(lines[i]) : Char(lines[i], j) = " "})
    IN  IF n = 0 THEN None
        ELSE TextV(SubSeq(lines[n],
                          MaxOf({j \in 1..Len(lines[n]) : Char(lines[n], j) = " "}) + 1,
                          Len(lines[n])) \o ".gz")

\* The "/" of file_path behind which only name characters follow to its end
TailSlash(file_path) ==
    MaxOf({i \in 1..Len(file_path) :
             /\ Char(file_path, i) = "/"
             /\ RunEnd(file_path, i + 1, NameChars) = Len(file_path)})

\* The "/" before it behind which only name characters stand up to it
DirSlash(file_path) ==
    MaxOf({i \in 1..(TailSlash(file_path) - 1) :
             /\ Char(file_path, i) = "/"
             /\ RunEnd(file_path, i + 1, NameChars) = TailSlash(file_path) - 1})

\* The substitution of the old file name: with a "/" in new_file the last
\* two parts of the path (r"/[-\.\w]*/[-\.\w]*$") give way to "/" and new_file,
\* else the last one (r"/[-\.\w]*$"); a path the pattern does not match stays
Redirect(file_path, new_file) ==
    IF \E j \in 1..Len(new_file) : Char(new_file, j) = "/"
    THEN IF TailSlash(file_path) = 0 \/ DirSlash(file_path) = 0 THEN file_path
         ELSE SubSeq(file_path, 1, DirSlash(file_path) - 1) \o "/" \o new_file
    ELSE IF TailSlash(file_path) = 0 THEN file_path
         ELSE SubSeq(file_path, 1, TailSlash(file_path) - 1) \o "/" \o new_file

\* ------------------------------------------------------------------------
\* parse_bash_page: the splitter of the bash manual page
\* ------------------------------------------------------------------------

\* shell_builtins that asks for the first letter only
ShellBuiltinsMatch_first_letter(line) == Char(line, 1) = "S"

\* shell_builtins.match(line): r"^SHELL BUILTIN COMMANDS$" on a line that
\* holds no line end.
ShellBuiltinsMatch(line) == line = "SHELL BUILTIN COMMANDS"

\* The number of spaces a line starts with.
Indent(line) == RunEnd(line, 1, {" "})

\* builtin_reg.match(line): r"^ {6,8}([a-zA-Z0-9_\-\+]+)".  A space is no
\* identifier character, so the spaces matched are all the leading ones.
BuiltinRegMatch(line) ==
    /\ Indent(line) \in 6..8
    /\ Char(line, Indent(line) + 1) \in IdentChars

\* builtin_reg.findall(line)[0]: the identifier behind the indentation.
FirstWord(line) ==
    SubSeq(line, Indent(line) + 1, RunEnd(line, Indent(line) + 1, IdentChars))

\* section_end.match(line): r"^[A-Z]".
SectionEndMatch(line) == Char(line, 1) \in Uppers

\* man_group, the group of every command of the bash page: the number 1
man_group == 1

\* The local variables of parse_bash_page before its loop; stopped is TRUE
\* once the loop has been left by break.  mans is the dictionary, a function
\* from its keys to their texts.
BashStart ==
    [builtins |-> FALSE, current_builtin |-> "", bash_man |-> "",
     mans |-> << >>, stopped |-> FALSE]

\* A builtin header that keeps the text a name has
BashHeader_keeps_text(st, first_word) ==
    [st EXCEPT !.current_builtin = first_word,
               !.mans = st.mans @@ (first_word :> first_word)]

\* The first branch of the scanning state: a builtin header of a known
\* name makes that name current and sets its text to the name.
BashHeader(st, first_word) ==
    [st EXCEPT !.current_builtin = first_word,
               !.mans = (first_word :> first_word) @@ st.mans]

\* The end of a loop body that gives the lines no builtin owns to bash
BashAppend_to_bash(st, line) ==
    IF st.current_builtin # ""
    THEN [st EXCEPT !.mans[st.current_builtin] = st.mans[st.current_builtin] \o line]
    ELSE [st EXCEPT !.mans["bash"] = st.mans["bash"] \o line]

\* The end of the loop body: the line goes to the text of the current
\* builtin, if there is one.
BashAppend(st, line) ==
    IF st.current_builtin # ""
    THEN [st EXCEPT !.mans[st.current_builtin] = st.mans[st.current_builtin] \o line]
    ELSE st

\* A section line that does not end the loop
BashSectionEnd_goes_on(st) == st

\* The branch taken when a line that is no builtin header starts a section.
BashSectionEnd(st) == [st EXCEPT !.stopped = TRUE]

\* One pass of the loop body of parse_bash_page over one line.
BashLine(st, line, command_list) ==
    IF ~ st.builtins
    THEN IF ShellBuiltinsMatch(line)
         THEN [st EXCEPT !.builtins = TRUE,
                         !.mans = ("bash" :> st.bash_man) @@ st.mans]
         ELSE [st EXCEPT !.bash_man = st.bash_man \o line]
    ELSE IF BuiltinRegMatch(line)
         THEN IF InList(FirstWord(line), command_list)
              THEN BashHeader(st, FirstWord(line))
              ELSE BashAppend(st, line)
         ELSE IF SectionEndMatch(line)
              THEN BashSectionEnd(st)
              ELSE BashAppend(st, line)

\* The whole loop: the lines in order until the end or the break.
RECURSIVE BashScan(_, _, _)
BashScan(st, lines, command_list) ==
    IF lines = << >> \/ st.stopped THEN st
    ELSE BashScan(BashLine(st, Head(lines), command_list), Tail(lines), command_list)

\* ------------------------------------------------------------------------
\* The catalogue store: SQLite values, the three tables, the statements
\* ------------------------------------------------------------------------

\* The SQL value NULL; IntV and TextV are the INTEGER and TEXT values.
Null == [t |-> "null"]

DigitStr == <<"1", "2", "3", "4", "5", "6", "7", "8", "9">>

\* str(n) of a number n >= 0
RECURSIVE StrOfInt(_)
StrOfInt(n) ==
    IF n = 0 THEN "0"
    ELSE IF n < 10 THEN DigitStr[n]
    ELSE StrOfInt(n \div 10) \o (IF n % 10 = 0 THEN "0" ELSE DigitStr[n % 10])

\* The number a text of digits denotes
RECURSIVE IntOfDigits(_, _)
IntOfDigits(s, acc) ==
    IF s = "" THEN acc
    ELSE IntOfDigits(Tail(s),
             10 * acc + (IF Head(s) = "0" THEN 0
                         ELSE CHOOSE d \in 1..9 : DigitStr[d] = Head(s)))

IsDigits(s) == s # "" /\ RunEnd(s, 1, Digits) = Len(s)

\* str(v) as add_command and add_switch apply it to an id or a group
PyStr(v) == IF v.t = "int" THEN TextV(StrOfInt(v.n)) ELSE v

\* A Python parameter bound to a statement: None is bound as NULL.
Bind(v) == IF v.t = "none" THEN Null ELSE v

\* The declared type of the columns the program compares.  The schema file
\* is not among the sources; these follow the logical schema of the
\* specification (the group is kept as text, the keys are integers).
ColumnAffinity ==
    [man_group |-> "TEXT", system_id |-> "INTEGER", command_id |-> "INTEGER",
     command |-> "TEXT", name |-> "TEXT", switch |-> "TEXT"]

\* SQLite's conversion of a value to the affinity of a column, applied to
\* a value stored in the column and to a value compared with it.
ApplyAffinity(aff, v) ==
    IF aff = "TEXT" /\ v.t = "int" THEN TextV(StrOfInt(v.n))
    ELSE IF aff = "INTEGER" /\ v.t = "text" /\ IsDigits(v.s)
    THEN IntV(IntOfDigits(v.s, 0))
    ELSE v

\* column = ? : the parameter takes the affinity of the column; NULL equals
\* nothing.
SqlEq(col, stored, param) ==
    /\ stored.t # "null"
    /\ param.t # "null"
    /\ stored = ApplyAffinity(ColumnAffinity[col], param)

\* The store right after create_empty_db.  system and command are the
\* rows in the order of their ids (the id of a row is its index: rows of
\* these tables are never deleted); switch is the bag of its rows, whose ids
\* the program never reads; name_unique is whether the schema file, which
\* is not among the sources, declares the name of a system UNIQUE.
EmptyDb ==
    [system |-> << >>, command |-> << >>, switch |-> EmptyBag, name_unique |-> TRUE]

\* The ids of the rows of a table that satisfy Match, and fetchone() on
\* them: 0 stands for None, else the row SQLite's scan of the table in the
\* order of its ids meets first.
FetchOne(ids) == IF ids = {} THEN 0 ELSE CHOOSE i \in ids : \A j \in ids : i <= j

\* find_system: SELECT id FROM system WHERE name=?
find_system(db, sys_name) ==
    FetchOne({i \in 1..Len(db.system) : SqlEq("name", db.system[i].name, Bind(sys_name))})

\* add_system: INSERT INTO system(name), commit, lastrowid.  Where the name
\* is UNIQUE, inserting a stored name raises and stores nothing.
add_system(db, sys_name) ==
    IF db.name_unique /\ \E i \in 1..Len(db.system) : db.system[i].name = Bind(sys_name)
    THEN [db |-> db, id |-> 0, raised |-> TRUE]
    ELSE [db |-> [db EXCEPT !.system = Append(@, [name |-> Bind(sys_name)])],
          id |-> Len(db.system) + 1, raised |-> FALSE]

\* handle_system without its lookup: every call adds
handle_system_always_adds(db, sys_name) == add_system(db, sys_name)

\* handle_system
handle_system(db, sys_name) ==
    IF find_system(db, sys_name) = 0
    THEN add_system(db, sys_name)
    ELSE [db |-> db, id |-> find_system(db, sys_name), raised |-> FALSE]

\* add_command: the group goes through str() unless it is None, the system
\* id always; INSERT, commit, lastrowid.
add_command(db, manpage_name, command, group, sys_id) ==
    [db |-> [db EXCEPT !.command = Append(@,
                [command      |-> Bind(command),
                 manpage_name |-> Bind(manpage_name),
                 man_group    |-> ApplyAffinity(ColumnAffinity.man_group,
                                        Bind(IF group = None THEN None ELSE PyStr(group))),
                 system_id    |-> ApplyAffinity(ColumnAffinity.system_id,
                                        PyStr(IntV(sys_id)))])],
     id |-> Len(db.command) + 1]

\* find_command comparing the group as passed, a number with a text
find_command_unconverted(db, command, group, os_id) ==
    FetchOne({i \in 1..Len(db.command) :
        /\ SqlEq("command", db.command[i].command, Bind(command))
        /\ group # None => db.command[i].man_group = Bind(group)
        /\ SqlEq("system_id", db.command[i].system_id, IntV(os_id))})

\* find_command that, without a group, asks for a row without a group
find_command_null_group(db, command, group, os_id) ==
    FetchOne({i \in 1..Len(db.command) :
        /\ SqlEq("command", db.command[i].command, Bind(command))
        /\ IF group = None THEN db.command[i].man_group = Null
           ELSE SqlEq("man_group", db.command[i].man_group, Bind(group))
        /\ SqlEq("system_id", db.command[i].system_id, IntV(os_id))})

\* find_command: without a group the command and the system decide, with a
\* group the three of them; fetchone().
find_command(db, command, group, os_id) ==
    FetchOne({i \in 1..Len(db.command) :
        /\ SqlEq("command", db.command[i].command, Bind(command))
        /\ group # None => SqlEq("man_group", db.command[i].man_group, Bind(group))
        /\ SqlEq("system_id", db.command[i].system_id, IntV(os_id))})

\* delete_associated_switches that deletes nothing
delete_associated_switches_none(db, command_id) == db

\* delete_associated_switches without its WHERE clause
delete_associated_switches_all(db, command_id) == [db EXCEPT !.switch = EmptyBag]

\* delete_associated_switches: DELETE FROM switch WHERE command_id=?, commit
delete_associated_switches(db, command_id) ==
    [db EXCEPT !.switch =
        LET keep == {r \in BagToSet(db.switch) :
                        ~ SqlEq("command_id", r.command_id, IntV(command_id))}
        IN  [r \in keep |-> db.switch[r]]]

\* add_switch: INSERT INTO switch(switch, command_id), commit
add_switch(db, switch, com_id) ==
    [db EXCEPT !.switch = @ (+) SetToBag({
        [switch     |-> switch,
         command_id |-> ApplyAffinity(ColumnAffinity.command_id, PyStr(IntV(com_id)))]})]

\* handle_command that leaves the switches of a row found in place
handle_command_keeps_switches(db, manpage_name, command, group, os_id) ==
    IF find_command(db, command, group, os_id) = 0
    THEN add_command(db, manpage_name, command, group, os_id)
    ELSE [db |-> db, id |-> find_command(db, command, group, os_id)]

\* handle_command: the id of the row found, its switches deleted, or the id
\* of a row added.
handle_command(db, manpage_name, command, group, os_id) ==
    IF find_command(db, command, group, os_id) = 0
    THEN add_command(db, manpage_name, command, group, os_id)
    ELSE [db |-> delete_associated_switches(db, find_command(db, command, group, os_id)),
          id |-> find_command(db, command, group, os_id)]

\* The loop of put_manpage_into_db: add_switch for every flag of the list.
RECURSIVE AddSwitches(_, _, _)
AddSwitches(db, flags_list, command_id) ==
    IF flags_list = << >> THEN db
    ELSE AddSwitches(add_switch(db, Head(flags_list), command_id),
                     Tail(flags_list), command_id)

\* put_manpage_into_db, run to its end
put_manpage_into_db(db, os_id, man_name, command, number, flags_list) ==
    LET hc == handle_command(db, man_name, command, number, os_id)
    IN  AddSwitches(hc.db, flags_list, hc.id)

\* store_cmds_to_db: handle_command for every command of the list.  (The
\* store behind one pass is bound as a value, next, so that the passes
\* behind it work on it as it is.)
RECURSIVE store_cmds_to_db(_, _, _)
store_cmds_to_db(db, cmds, os_id) ==
    IF cmds = << >> THEN db
    ELSE CHOOSE result \in
            {store_cmds_to_db(next, Tail(cmds), os_id) :
                next \in {handle_command(db, None, TextV(Head(cmds)), None, os_id).db}} :
            TRUE

\* The second loop of parse_bash_page, its dictionary walked in the order
\* given: parse_one_page and put_manpage_into_db for every key.
RECURSIVE StoreMans(_, _, _, _)
StoreMans(db, mans, order, os_id) ==
    IF order = << >> THEN db
    ELSE CHOOSE result \in
            {StoreMans(next, mans, Tail(order), os_id) :
                next \in {put_manpage_into_db(db, os_id, None, TextV(Head(order)),
                                              IntV(man_group),
                                              parse_one_page(mans[Head(order)]))}} :
            TRUE

\* parse_bash_page, run to its end; order is the order in which the
\* dictionary yields its keys.
parse_bash_page(db, content, command_list, os_id, order) ==
    StoreMans(db, BashScan(BashStart, SplitLines(content), command_list).mans,
              order, os_id)

\* The switch texts a command id owns
SwitchesOf(db, command_id) ==
    {r.switch : r \in {q \in BagToSet(db.switch) : q.command_id = IntV(command_id)}}

\* ------------------------------------------------------------------------
\* The bounds and the inputs of the model
\* ------------------------------------------------------------------------

\* The command table holds at most this many rows.
MaxCommands == 2

\* args.os_name + args.os_version: the system of the runs of the store
\* model, the system of an earlier run, and all the names of the system model
RunSystem == "TestOS1.0"

EarlierSystem == "Ubuntu20.04"

SystemNames == {"TestOS1.0", "Ubuntu20.04", "Fedora22", "Debian8"}

\* The command names of the store model and their manual page names
CommandNames == {"ls", "cd"}

ManNameOf == ("ls" :> "LS") @@ ("cd" :> "CD")

\* The group a caller passes: None (handle_helps, store_cmds_to_db), the
\* text parse_manpage_number gives (parse_man_pages), the number 1
\* (parse_bash_page).
Groups == {None, TextV("1"), IntV(1)}

\* Rendered texts handed to parse_one_page; the first names -a twice.
TextAB == " -a, -b [-a]"

TextA == "x [-a]"

PageTexts == {TextAB, TextA}

\* flags_list of each of them
FlagsOfText == [text \in PageTexts |-> parse_one_page(text)]

\* The store an earlier run on another system has left: that system and its
\* manual page ls(1).
EarlierRunDb ==
    put_manpage_into_db(handle_system(EmptyDb, TextV(EarlierSystem)).db, 1,
                        TextV("LS"), TextV("ls"), TextV("1"), FlagsOfText[TextAB])

\* ------------------------------------------------------------------------
\* State
\* ------------------------------------------------------------------------

VARIABLES
    db,             \* the store: [system, command, switch], all of it committed
    current_os_id,  \* main's variable: what handle_system returned, 0 before
    unit,           \* the write unit (put_manpage_into_db, or one handle_command
                    \* of store_cmds_to_db) in progress or last run
    sys,            \* the calls of handle_system as the system model records them
    bash,           \* parse_bash_page: its input and its local variables
    run,            \* main: its position and its local variables
    hp,             \* handle_helps: its threads, processes and timers
    call            \* one call of a function that touches no store: its
                    \* arguments and what it returned

vars == <<db, current_os_id, unit, sys, bash, run, hp, call>>

\* No write unit has run yet.  Of a unit: the arguments of its
\* handle_command (tuple), the id returned, whether the row was found, the
\* switch texts the id owned before (kept until the unit is done), whether
\* one of them is not in flags_list (stale), flags_list and what is left of
\* it to add, whether the call before it had the same tuple (again), which
\* id that call returned (last_id) and whether that call was a completed
\* put_manpage_into_db (last_put).
NoUnit ==
    [state |-> "idle", kind |-> "put", tuple |-> <<None, None, 0>>,
     id |-> 0, found |-> FALSE, old |-> {}, stale |-> FALSE,
     flags |-> << >>, pending |-> << >>, again |-> FALSE, last_id |-> 0,
     last_put |-> FALSE]

\* No call of handle_system yet: the last call (its name, the id returned,
\* whether it raised, whether the name was stored before it, whether the
\* table grew) and per name the id its first call returned.
NoSys ==
    [name |-> "", id |-> 0, raised |-> FALSE, known |-> FALSE, grew |-> FALSE,
     ret |-> [n \in SystemNames |-> 0]]

\* The parts of the state a specification does not use
NoBash == [pc |-> "off"]

NoRun == [pc |-> "off"]

NoHelps == [pc |-> "off"]

NoCall == [pc |-> "off"]

\* The elements of a list
Range(l) == {l[i] : i \in 1..Len(l)}

\* ------------------------------------------------------------------------
\* The store model: runs of one system on a store, write unit by write unit,
\* statement by statement
\* ------------------------------------------------------------------------

StoreInit ==
    /\ db \in {EmptyDb, EarlierRunDb}
    /\ current_os_id = 0
    /\ unit = NoUnit
    /\ call = NoCall
    /\ sys = NoSys
    /\ bash = NoBash
    /\ run = NoRun
    /\ hp = NoHelps

\* The state of a unit that has flags_list left to add.
UnitState(pending) == IF pending = << >> THEN "done" ELSE "adding"

\* main: handle_system(args.os_name + args.os_version), the start of a run
HandleSystem ==
    /\ unit.state # "adding"
    /\ db' = handle_system(db, TextV(RunSystem)).db
    /\ current_os_id' = handle_system(db, TextV(RunSystem)).id
    /\ UNCHANGED <<unit, sys, bash, run, hp, call>>

\* The call of handle_command that opens a write unit: its find and its one
\* committed statement (the INSERT of the command or the DELETE of its
\* switches).  kind "put" is put_manpage_into_db with flags_list still to
\* add, kind "store" is one pass of the loop of store_cmds_to_db.
BeginUnit(kind, man_name, command, group, os_id, flags_list) ==
    LET hc == handle_command(db, man_name, command, group, os_id)
        t  == <<command, group, os_id>>
    IN  /\ unit.state # "adding"
        /\ os_id # 0
        /\ Len(hc.db.command) <= MaxCommands
        /\ db' = hc.db
        /\ unit' = [state |-> UnitState(flags_list), kind |-> kind, tuple |-> t,
                    id |-> hc.id,
                    found |-> find_command(db, command, group, os_id) # 0,
                    old |-> IF flags_list = << >> THEN {} ELSE SwitchesOf(db, hc.id),
                    stale |-> SwitchesOf(db, hc.id) \ Range(flags_list) # {},
                    flags |-> flags_list, pending |-> flags_list,
                    again |-> unit.state # "idle" /\ unit.tuple = t,
                    last_id |-> IF unit.state # "idle" /\ unit.tuple = t
                                THEN unit.id ELSE 0,
                    last_put |-> /\ unit.state = "done" /\ unit.kind = "put"
                                 /\ unit.tuple = t]
        /\ UNCHANGED <<current_os_id, sys, bash, run, hp, call>>

\* put_manpage_into_db as parse_man_pages, parse_bash_page and handle_helps
\* call it: the flags are those parse_one_page finds in a rendered text, the
\* manual page name is given with a group taken from a path only.
PutManpage ==
    \E c \in CommandNames, g \in Groups, text \in PageTexts :
        BeginUnit("put", IF g.t = "text" THEN TextV(ManNameOf[c]) ELSE None,
                  TextV(c), g, current_os_id, FlagsOfText[text])

\* One pass of the loop of store_cmds_to_db
StoreCmd ==
    \E c \in CommandNames :
        BeginUnit("store", None, TextV(c), None, current_os_id, << >>)

\* One pass of the loop of put_manpage_into_db: add_switch and its commit
AddSwitchStep ==
    /\ unit.state = "adding"
    /\ db' = add_switch(db, Head(unit.pending), unit.id)
    /\ unit' = [unit EXCEPT !.pending = Tail(@),
                             !.state = UnitState(Tail(unit.pending)),
                             !.old = IF Tail(unit.pending) = << >> THEN {} ELSE @]
    /\ UNCHANGED <<current_os_id, sys, bash, run, hp, call>>

\* The run ends inside a write unit (an exception of the store, a kill):
\* nothing is rolled back, every statement so far is committed.  What is
\* kept of the unit is what it found and what it was to write.
Fail ==
    /\ unit.state = "adding"
    /\ unit' = [NoUnit EXCEPT !.state = "failed", !.id = unit.id,
                               !.found = unit.found, !.old = unit.old,
                               !.flags = unit.flags]
    /\ UNCHANGED <<db, current_os_id, sys, bash, run, hp, call>>

StoreNext ==
    \/ HandleSystem
    \/ PutManpage
    \/ StoreCmd
    \/ AddSwitchStep
    \/ Fail

Spec == StoreInit /\ [][StoreNext]_vars

\* ------------------------------------------------------------------------
\* The system model: handle_system called run after run
\* ------------------------------------------------------------------------

SystemInit ==
    /\ db \in {EmptyDb, [EmptyDb EXCEPT !.name_unique = FALSE]}
    /\ current_os_id = 0
    /\ unit = NoUnit
    /\ call = NoCall
    /\ sys = NoSys
    /\ bash = NoBash
    /\ run = NoRun
    /\ hp = NoHelps

\* main: handle_system(name), with the record of the call
HandleSystemCall(name) ==
    LET r == handle_system(db, TextV(name))
    IN  /\ db' = r.db
        /\ current_os_id' = r.id
        /\ sys' = [name |-> name, id |-> r.id, raised |-> r.raised,
                   known |-> \E i \in 1..Len(db.system) : db.system[i].name = TextV(name),
                   grew |-> Len(r.db.system) > Len(db.system),
                   ret |-> IF sys.ret[name] = 0 THEN [sys.ret EXCEPT ![name] = r.id]
                           ELSE sys.ret]
        /\ UNCHANGED <<unit, bash, run, hp, call>>

SystemNext == \E name \in SystemNames : HandleSystemCall(name)

SpecSystem == SystemInit /\ [][SystemNext]_vars

\* ------------------------------------------------------------------------
\* The splitter model: parse_bash_page on a rendered bash page, line by line,
\* then sub-document by sub-document
\* ------------------------------------------------------------------------

\* A body holds at most this many lines.
MaxBody == 3

\* builtins, the list get_os_commands('builtin') gave main
BashBuiltins == <<"cd", "bg">>

\* The parts a rendered page is put together from: the lines before the
\* builtins section, its header line, the lines of the section (headers of
\* known names indented by 6 and 8, a line of an unknown name indented by 7,
\* a description line), the lines of the section after it.
BashPre == {<< >>, <<"BASH(1)", " -c">>}

BashHdr == {<< >>, <<"SHELL BUILTIN COMMANDS">>}

BodyLines == {"      cd [-L]", "        bg -n", "       x -z", "   -P"}

BashTail == {<< >>, <<"SEE", "       bg -e">>}

BashBodies == UNION {[1..n -> BodyLines] : n \in 0..MaxBody}

\* The text of a page: every line with its line end
RECURSIVE JoinLines(_)
JoinLines(lines) ==
    IF lines = << >> THEN "" ELSE Head(lines) \o "\n" \o JoinLines(Tail(lines))

BashContents ==
    {JoinLines(pre \o hdr \o body \o tail) :
        pre \in BashPre, hdr \in BashHdr, body \in BashBodies, tail \in BashTail}

\* parse_bash_page is entered: content is split, the local variables are set.
BashInit ==
    /\ db = handle_system(EmptyDb, TextV(RunSystem)).db
    /\ current_os_id = handle_system(EmptyDb, TextV(RunSystem)).id
    /\ unit = NoUnit
    /\ call = NoCall
    /\ sys = NoSys
    /\ \E content \in BashContents :
          bash = [pc |-> "scan", lines |-> SplitLines(content),
                  rest |-> SplitLines(content), st |-> BashStart,
                  last |-> "", header |-> FALSE, todo |-> {}, flags |-> << >>]
    /\ run = NoRun
    /\ hp = NoHelps

\* One pass of the first loop.  last is the line of the pass, header whether
\* the pass took the branch of a builtin header of a known name.
BashScanLine ==
    /\ bash.pc = "scan"
    /\ bash.rest # << >>
    /\ ~ bash.st.stopped
    /\ bash' = [bash EXCEPT
                  !.st = BashLine(bash.st, Head(bash.rest), BashBuiltins),
                  !.rest = Tail(bash.rest),
                  !.last = Head(bash.rest),
                  !.header = /\ bash.st.builtins
                             /\ BuiltinRegMatch(Head(bash.rest))
                             /\ InList(FirstWord(Head(bash.rest)), BashBuiltins)]
    /\ UNCHANGED <<db, current_os_id, unit, sys, run, hp, call>>

\* The first loop is over, at the last line or by break.
BashEndScan ==
    /\ bash.pc = "scan"
    /\ bash.rest = << >> \/ bash.st.stopped
    /\ bash' = [bash EXCEPT !.pc = "store", !.header = FALSE,
                             !.todo = DOMAIN bash.st.mans]
    /\ UNCHANGED <<db, current_os_id, unit, sys, run, hp, call>>

\* One pass of the second loop, for the key the dictionary yields next:
\* parse_one_page of its text and put_manpage_into_db.
BashStoreOne ==
    /\ bash.pc = "store"
    /\ \E command \in bash.todo :
          /\ db' = StoreMans(db, bash.st.mans, <<command>>, current_os_id)
          /\ bash' = [bash EXCEPT
                        !.todo = @ \ {command},
                        !.flags = (command :> parse_one_page(bash.st.mans[command])) @@ @]
    /\ UNCHANGED <<current_os_id, unit, sys, run, hp, call>>

\* parse_bash_page returns.
BashReturn ==
    /\ bash.pc = "store"
    /\ bash.todo = {}
    /\ bash' = [bash EXCEPT !.pc = "done"]
    /\ UNCHANGED <<db, current_os_id, unit, sys, run, hp, call>>

BashNext ==
    \/ BashScanLine
    \/ BashEndScan
    \/ BashStoreOne
    \/ BashReturn

SpecBash == BashInit /\ [][BashNext]_vars

\* ------------------------------------------------------------------------
\* The help model: handle_helps, its main thread, the processes it starts
\* and the threads of its timers
\* ------------------------------------------------------------------------

\* cmds holds at most this many commands.
MaxHelpCmds == 2

\* The commands handle_helps can be given, what each prints for --help, and
\* the process ids the system hands out (it hands out again the id of a
\* process that has been waited for).
HelpCommands == {"ls", "cd", "bg"}

HelpTextOf == ("ls" :> TextAB) @@ ("cd" :> TextA) @@ ("bg" :> "bg: [-x]")

Pids == {4711, 4712}

\* cmds as get_os_commands returns it: no command twice
HelpLists ==
    {l \in UNION {[1..n -> HelpCommands] : n \in 1..MaxHelpCmds} :
        \A i, j \in 1..Len(l) : l[i] = l[j] => i = j}

\* handle_helps is entered by main, after store_cmds_to_db(cmds) on a new
\* store.  broken are the commands that cannot be started.  Per pass i of
\* the loop: proc[i] the process ("none", "running", "ended"), pid[i] its
\* id, killed[i] whether a signal ended it, timer[i] the thread of the
\* timer ("none"; "waiting" in finished.wait(interval); "firing" once it
\* has seen finished unset and is about to call the function; "over"),
\* finished[i] the event of the timer.
HelpsInit ==
    /\ \E cmds \in HelpLists :
          /\ db = store_cmds_to_db(handle_system(EmptyDb, TextV(RunSystem)).db, cmds,
                                   handle_system(EmptyDb, TextV(RunSystem)).id)
          /\ \E broken \in SUBSET Range(cmds) :
                hp = [pc |-> "popen", cmds |-> cmds, i |-> 1, broken |-> broken,
                      proc |-> [i \in 1..Len(cmds) |-> "none"],
                      pid |-> [i \in 1..Len(cmds) |-> 0],
                      killed |-> [i \in 1..Len(cmds) |-> FALSE],
                      timer |-> [i \in 1..Len(cmds) |-> "none"],
                      finished |-> [i \in 1..Len(cmds) |-> FALSE],
                      help_cont |-> "", helps |-> << >>,
                      failed |-> {}, written |-> {}, stale |-> FALSE, hit |-> {}]
    /\ current_os_id = handle_system(EmptyDb, TextV(RunSystem)).id
    /\ unit = NoUnit
    /\ call = NoCall
    /\ sys = NoSys
    /\ bash = NoBash
    /\ run = NoRun

\* except OSError: the message and continue, which leaves the pass without
\* a process; a handler that lets the exception end the call
AfterOSError_aborts(h) ==
    [h EXCEPT !.failed = @ \cup {h.cmds[h.i]}, !.pc = "return"]

\* except OSError: the message and continue, which leaves the pass without
\* a process, a timer or a write
AfterOSError(h) ==
    [h EXCEPT !.failed = @ \cup {h.cmds[h.i]}, !.i = @ + 1, !.pc = "popen"]

\* subprocess.Popen([cmd, "--help"], ...): OSError, or a process with an id
\* no process waited for holds
HelpsPopen ==
    /\ hp.pc = "popen"
    /\ hp.i <= Len(hp.cmds)
    /\ IF hp.cmds[hp.i] \in hp.broken
       THEN hp' = AfterOSError(hp)
       ELSE \E pid \in Pids :
               hp' = [hp EXCEPT !.proc[hp.i] = "running", !.pid[hp.i] = pid,
                                !.pc = "start"]
    /\ UNCHANGED <<db, current_os_id, unit, sys, bash, run, call>>

\* timer = Timer(timeout, kill_proc, [p]); timer.start()
HelpsTimerStart ==
    /\ hp.pc = "start"
    /\ hp' = [hp EXCEPT !.timer[hp.i] = "waiting", !.pc = "communicate"]
    /\ UNCHANGED <<db, current_os_id, unit, sys, bash, run, call>>

\* help_cont = p.communicate()[0]: returns once the process has ended, with
\* what it has printed: all of its help text, or any part if it was killed
HelpsCommunicate ==
    /\ hp.pc = "communicate"
    /\ hp.proc[hp.i] = "ended"
    /\ \E out \in {HelpTextOf[hp.cmds[hp.i]]}
                    \cup (IF hp.killed[hp.i] THEN {""} ELSE {}) :
          hp' = [hp EXCEPT !.help_cont = out, !.pc = "cancel"]
    /\ UNCHANGED <<db, current_os_id, unit, sys, bash, run, call>>

\* finally: timer.cancel(), which sets the event; a thread still waiting
\* for it wakes, sees it set and ends without the call
HelpsCancel ==
    /\ hp.pc = "cancel"
    /\ hp' = [hp EXCEPT !.finished[hp.i] = TRUE,
                        !.timer[hp.i] = IF @ = "waiting" THEN "over" ELSE @,
                        !.pc = "store"]
    /\ UNCHANGED <<db, current_os_id, unit, sys, bash, run, call>>

\* f_list = parse_one_page(help_cont); put_manpage_into_db(os_id, None, cmd,
\* None, f_list); helps[cmd] = help_cont
HelpsStore ==
    /\ hp.pc = "store"
    /\ db' = put_manpage_into_db(db, current_os_id, None, TextV(hp.cmds[hp.i]), None,
                                 parse_one_page(hp.help_cont))
    /\ hp' = [hp EXCEPT !.written = @ \cup {hp.cmds[hp.i]},
                        !.helps = (hp.cmds[hp.i] :> hp.help_cont) @@ @,
                        !.i = @ + 1, !.pc = "popen"]
    /\ UNCHANGED <<current_os_id, unit, sys, bash, run, call>>

\* return helps
HelpsReturn ==
    /\ hp.pc = "popen"
    /\ hp.i > Len(hp.cmds)
    /\ hp' = [hp EXCEPT !.pc = "return"]
    /\ UNCHANGED <<db, current_os_id, unit, sys, bash, run, call>>

\* The process of pass i ends by itself.
ProcExit(i) ==
    /\ hp.proc[i] = "running"
    /\ hp' = [hp EXCEPT !.proc[i] = "ended"]
    /\ UNCHANGED <<db, current_os_id, unit, sys, bash, run, call>>

\* Timer.run of pass i: the interval is over, finished.wait returns, and
\* finished.is_set() is still false.
TimerExpire(i) ==
    /\ hp.timer[i] = "waiting"
    /\ ~ hp.finished[i]
    /\ hp' = [hp EXCEPT !.timer[i] = "firing"]
    /\ UNCHANGED <<db, current_os_id, unit, sys, bash, run, call>>

\* Has the main thread gone on from pass i, past its timer.cancel()?
GoneOn(h, i) == h.i > i \/ (h.i = i /\ h.pc = "store")

\* Timer.run of pass i calls the function: p.kill(), which is
\* os.kill(p.pid, SIGKILL) whatever has become of p.  The signal ends every
\* running process that holds the id.  stale: the call came when the
\* process of the pass had ended and the main thread had gone on; hit: the
\* processes of other passes it ended.
TimerKill(i) ==
    /\ hp.timer[i] = "firing"
    /\ hp' = [hp EXCEPT
                !.timer[i] = "over",
                !.finished[i] = TRUE,
                !.proc = [j \in DOMAIN hp.proc |->
                            IF hp.proc[j] = "running" /\ hp.pid[j] = hp.pid[i]
                            THEN "ended" ELSE hp.proc[j]],
                !.killed = [j \in DOMAIN hp.proc |->
                            hp.killed[j]
                              \/ (hp.proc[j] = "running" /\ hp.pid[j] = hp.pid[i])],
                !.stale = @ \/ (hp.proc[i] = "ended" /\ GoneOn(hp, i)),
                !.hit = @ \cup {j \in DOMAIN hp.proc :
                                   /\ j # i /\ hp.proc[j] = "running"
                                   /\ hp.pid[j] = hp.pid[i]}]
    /\ UNCHANGED <<db, current_os_id, unit, sys, bash, run, call>>

HelpsNext ==
    \/ HelpsPopen
    \/ HelpsTimerStart
    \/ HelpsCommunicate
    \/ HelpsCancel
    \/ HelpsStore
    \/ HelpsReturn
    \/ \E i \in 1..Len(hp.cmds) : ProcExit(i)
    \/ \E i \in 1..Len(hp.cmds) : TimerExpire(i)
    \/ \E i \in 1..Len(hp.cmds) : TimerKill(i)

SpecHelps == HelpsInit /\ [][HelpsNext]_vars

\* ------------------------------------------------------------------------
\* The run model: main from handle_system to its end, page by page
\* ------------------------------------------------------------------------

\* files holds at most this many paths.
MaxFiles == 2

\* The manual page files of the system: what the reader prints for a file
\* (raw) and what groff makes of it (rendered): the page of ls, the page of
\* bash, a stub that names the page of ls, a stub that names nothing, and a
\* stub that is not zipped, so that reg_name finds no name in its path.  (The
\* rendered texts hold no escape character, so the substitution that takes
\* the colours out leaves them as they are.)
ManFiles ==
    ("/usr/man/man1/ls.1.gz" :>
        [raw |-> ".TH LS 1", rendered |-> "LS(1)\n -a, -b [-a]\n"])
    @@ ("/usr/man/man1/bash.1.gz" :>
        [raw |-> ".TH BASH 1",
         rendered |-> "BASH(1)\n -c\nSHELL BUILTIN COMMANDS\n      cd [-L]\n   -P\nSEE\n"])
    @@ ("/usr/man/man1/dir.1.gz" :>
        [raw |-> ".so man1/ls.1\n", rendered |-> ""])
    @@ ("/usr/man/man1/sh.1.gz" :>
        [raw |-> ".so\n", rendered |-> ""])
    @@ ("/usr/man/man1/vi.1" :>
        [raw |-> ".so man1/ls.1\n", rendered |-> ""])

\* Reading a path: a file that is not there gives no output
ReadFile(file_path) ==
    IF file_path \in DOMAIN ManFiles THEN ManFiles[file_path]
    ELSE [raw |-> "", rendered |-> ""]

\* files as get_file_names gives it: no path twice
FileLists ==
    {l \in UNION {[1..n -> DOMAIN ManFiles] : n \in 0..MaxFiles} :
        \A i, j \in 1..Len(l) : l[i] = l[j] => i = j}

\* What compgen -b | sort -u and compgen -c | sort -u print
BuiltinOutput == "bg\ncd\n"

CompgenOutputs == {"ls\n", "cd\nls\n", "bash\ncd\ndir\n"}

\* What a command prints for --help in the run model
HelpOutputs == {"", TextA}

\* One pass of the loop of parse_man_pages up to the point where the page
\* is handed on: the stub is followed, the page rendered, its number and
\* its name found.  crashed: re.match on new_file None raises TypeError, and
\* so does lower() on man_name None raise AttributeError, both before
\* anything is written for the page.
PageOf(file_path) ==
    LET check_file == ReadFile(file_path).raw
        new_file   == IF IsStub(check_file) THEN NewFile(check_file) ELSE None
        new_path   == IF IsStub(check_file) /\ new_file # None
                      THEN Redirect(file_path, new_file.s) ELSE file_path
        output     == ReadFile(new_path).rendered
        man_name   == IF IsStub(check_file) THEN RegName(file_path)
                      ELSE TextV(parse_name(output))
    IN  [crashed |-> IsStub(check_file) /\ (new_file = None \/ man_name = None),
         file_path |-> new_path, output |-> output,
         number |-> parse_manpage_number(new_path), man_name |-> man_name]

\* That pass for every file of the system
Pages == [file_path \in DOMAIN ManFiles |-> PageOf(file_path)]

\* The keys parse_bash_page stores for a page, none for a page that is not
\* the one of bash
BashKeysOf(file_path, builtins) ==
    IF Pages[file_path].crashed \/ Pages[file_path].man_name # TextV("BASH") THEN {}
    ELSE DOMAIN BashScan(BashStart, SplitLines(Pages[file_path].output), builtins).mans

\* The orders a dictionary of these keys can yield them in
OrdersOf(keys) ==
    {o \in [1..Cardinality(keys) -> keys] : \A i, j \in DOMAIN o : o[i] = o[j] => i = j}

\* What the second loop of parse_bash_page hands to put_manpage_into_db:
\* per command and group the set of the flags
BashPuts(content, command_list) ==
    [t \in {<<TextV(k), IntV(man_group)>> :
               k \in DOMAIN BashScan(BashStart, SplitLines(content), command_list).mans} |->
        Range(parse_one_page(
            BashScan(BashStart, SplitLines(content), command_list).mans[t[1].s]))]

\* One pass of the loop of parse_man_pages: the store behind it, whether the
\* pass raised, what it appended to commands_stored, and what it handed to
\* put_manpage_into_db (per command and group the set of the flags).
parse_man_page(store, file_path, builtins, os_id, order) ==
    IF Pages[file_path].crashed
    THEN [db |-> store, crashed |-> TRUE, stored |-> << >>, puts |-> << >>]
    ELSE IF Pages[file_path].man_name = TextV("BASH")
    THEN [db |-> parse_bash_page(store, Pages[file_path].output, builtins, os_id, order),
          crashed |-> FALSE, stored |-> << >>,
          puts |-> BashPuts(Pages[file_path].output, builtins)]
    ELSE [db |-> put_manpage_into_db(store, os_id, Pages[file_path].man_name,
                                     TextV(Lower(Pages[file_path].man_name.s)),
                                     Pages[file_path].number,
                                     parse_one_page(Pages[file_path].output)),
          crashed |-> FALSE, stored |-> <<Lower(Pages[file_path].man_name.s)>>,
          puts |-> <<TextV(Lower(Pages[file_path].man_name.s)), Pages[file_path].number>>
                      :> Range(parse_one_page(Pages[file_path].output))]

\* The tables schema.sql creates, and the tables a database file can hold
SchemaTables == {"system", "command", "switch"}

FileTables == SchemaTables \cup {"history"}

\* The rows of a store that are in the tables a file holds
RowsIn(store, tables) ==
    [system |-> IF "system" \in tables THEN store.system ELSE << >>,
     command |-> IF "command" \in tables THEN store.command ELSE << >>,
     switch |-> IF "switch" \in tables THEN store.switch ELSE EmptyBag,
     name_unique |-> store.name_unique]

\* open_db with every check left out
open_db_unchecked(tables) == [raised |-> FALSE]

\* open_db: count(*) of the tables of sqlite_master named system, command
\* or switch; RuntimeError unless it is 3
open_db(tables) ==
    [raised |-> Cardinality({t \in tables : t = "system" \/ t = "command" \/ t = "switch"}) # 3]

\* The database files main can meet: none, one with the tables of the
\* schema (new, or left by an earlier run), one that lacks some of them and
\* holds the rows of an earlier run in the others
DbFiles ==
    {[db_exists |-> FALSE, tables |-> {}, rows |-> EmptyDb]}
    \cup {[db_exists |-> TRUE, tables |-> tables, rows |-> rows] :
            tables \in {t \in SUBSET FileTables : SchemaTables \subseteq t},
            rows \in {EmptyDb, EarlierRunDb}}
    \cup {[db_exists |-> TRUE, tables |-> tables, rows |-> RowsIn(EarlierRunDb, tables)] :
            tables \in {t \in SUBSET FileTables : ~ (SchemaTables \subseteq t)}}

\* main is entered: the store is new or left by an earlier run; the files,
\* the commands of the system and the option --from-help are the run's.
MainInit ==
    /\ current_os_id = 0
    /\ unit = NoUnit
    /\ call = NoCall
    /\ sys = NoSys
    /\ bash = NoBash
    /\ \E file \in DbFiles, files \in FileLists, output \in CompgenOutputs,
          from_help \in BOOLEAN :
          /\ db = file.rows
          /\ run = [pc |-> "open", db_exists |-> file.db_exists, tables |-> file.tables,
                    files |-> files, compgen |-> output,
                    from_help |-> from_help, builtins |-> << >>, cmds |-> << >>,
                    file_path |-> "", handled_cmds |-> << >>, left |-> << >>,
                    extracted |-> << >>, enumerated |-> {}]
    /\ hp = NoHelps

\* main prepares the database file: open_db for a file that exists, which
\* raises RuntimeError and ends main when tables are missing, and
\* create_empty_db with the schema when there is none
MainOpenDb ==
    /\ run.pc = "open"
    /\ IF run.db_exists
       THEN /\ db' = db
            /\ run' = [run EXCEPT !.pc = IF open_db(run.tables).raised
                                         THEN "raised" ELSE "start"]
       ELSE /\ db' = EmptyDb
            /\ run' = [run EXCEPT !.pc = "start", !.db_exists = TRUE,
                                  !.tables = SchemaTables]
    /\ UNCHANGED <<current_os_id, unit, sys, bash, hp, call>>

\* main up to parse_man_pages: handle_system, get_os_commands twice
MainStart ==
    /\ run.pc = "start"
    /\ db' = handle_system(db, TextV(RunSystem)).db
    /\ current_os_id' = handle_system(db, TextV(RunSystem)).id
    /\ run' = [run EXCEPT !.pc = "pages",
                          !.builtins = get_os_commands(BuiltinOutput),
                          !.cmds = get_os_commands(run.compgen)]
    /\ UNCHANGED <<unit, sys, bash, hp, call>>

\* One pass of the loop of parse_man_pages.  extracted is what the run has
\* stored from manual page text so far, by command and group.
MainPage ==
    /\ run.pc = "pages"
    /\ run.files # << >>
    /\ \E order \in OrdersOf(BashKeysOf(Head(run.files), run.builtins)) :
          \E r \in {parse_man_page(db, Head(run.files), run.builtins,
                                    current_os_id, order)} :
              /\ db' = r.db
              /\ run' = [run EXCEPT
                            !.pc = IF r.crashed THEN "crashed" ELSE "pages",
                            !.files = Tail(@),
                            !.file_path = Head(run.files),
                            !.handled_cmds = @ \o r.stored,
                            !.extracted = r.puts @@ @]
    /\ UNCHANGED <<current_os_id, unit, sys, bash, hp, call>>

\* parse_man_pages returns commands_stored; remove_already_found_cmds(cmds,
\* handled_cmds) takes them out of cmds
MainRemoveFound ==
    /\ run.pc = "pages"
    /\ run.files = << >>
    /\ run' = [run EXCEPT !.pc = "store",
                          !.cmds = remove_already_found_cmds(run.cmds, run.handled_cmds)]
    /\ UNCHANGED <<db, current_os_id, unit, sys, bash, hp, call>>

\* The ids handle_command has returned for the commands of a list, as they
\* are found behind it
IdsOf(store, cmds, os_id) ==
    {find_command(store, TextV(cmds[i]), None, os_id) : i \in 1..Len(cmds)}

\* store_cmds_to_db(cmds, current_os_id); enumerated are the ids of the
\* rows the enumeration steps have handled
MainStoreCmds ==
    /\ run.pc = "store"
    /\ db' = store_cmds_to_db(db, run.cmds, current_os_id)
    /\ run' = [run EXCEPT
                  !.pc = IF run.from_help THEN "helps" ELSE "done",
                  !.left = IF run.from_help THEN run.cmds ELSE << >>,
                  !.enumerated =
                      @ \cup IdsOf(store_cmds_to_db(db, run.cmds, current_os_id),
                                   run.cmds, current_os_id)]
    /\ UNCHANGED <<current_os_id, unit, sys, bash, hp, call>>

\* One pass of the loop of handle_helps, from Popen to the store: OSError
\* and on to the next command, or the output is parsed and stored
MainHelp ==
    /\ run.pc = "helps"
    /\ run.left # << >>
    /\ \/ /\ db' = db
          /\ run' = [run EXCEPT !.left = Tail(@)]
       \/ \E help_cont \in HelpOutputs :
             /\ db' = put_manpage_into_db(db, current_os_id, None, TextV(Head(run.left)),
                                          None, parse_one_page(help_cont))
             /\ run' = [run EXCEPT !.left = Tail(@)]
    /\ UNCHANGED <<current_os_id, unit, sys, bash, hp, call>>

\* handle_helps returns, main ends
MainHelpsReturn ==
    /\ run.pc = "helps"
    /\ run.left = << >>
    /\ run' = [run EXCEPT !.pc = "done"]
    /\ UNCHANGED <<db, current_os_id, unit, sys, bash, hp, call>>

MainNext ==
    \/ MainOpenDb
    \/ MainStart
    \/ MainPage
    \/ MainRemoveFound
    \/ MainStoreCmds
    \/ MainHelp
    \/ MainHelpsReturn

SpecMain == MainInit /\ [][MainNext]_vars

\* ------------------------------------------------------------------------
\* The call model: one call of a function that touches no store, on every
\* argument of a bounded set
\* ------------------------------------------------------------------------

MaxText == 4

MaxStored == 2

\* The texts of at most n characters of a rendered page, the characters
\* being a separator, the two a switch starts with, a letter and a
\* question mark
RECURSIVE TextsOf(_)
TextsOf(n) ==
    IF n = 0 THEN {""}
    ELSE {""} \cup {t \o c : t \in TextsOf(n - 1), c \in {" ", "-", "+", "a", "?"}}

\* Paths of manual page files: the directories of get_directories and
\* another one, and file names of which two start with "man"
ManPaths ==
    {d \o n : d \in {"/usr/share/man/man1/", "/usr/share/man/man8/", "/usr/share/doc/"},
              n \in {"ls.1.gz", "man2html.1.gz", "mandb.8.gz"}}

\* What compgen | sort -u prints: some of these entries, sorted, each with
\* its line end
Entries == <<".", "[", "cd", "ls", "{">>

RECURSIVE OutputFrom(_, _)
OutputFrom(S, i) ==
    IF i > Len(Entries) THEN ""
    ELSE (IF i \in S THEN Entries[i] \o "\n" ELSE "") \o OutputFrom(S, i + 1)

SortedOutputs == {OutputFrom(S, 1) : S \in SUBSET (1..Len(Entries))}

\* A call is made: parse_one_page on a text, parse_manpage_number on a path,
\* get_os_commands on an output of compgen, remove_already_found_cmds on a
\* list get_os_commands returned and a list parse_man_pages returned (names
\* of pages, a name as often as it has pages)
CallsInit ==
    /\ db = EmptyDb
    /\ current_os_id = 0
    /\ unit = NoUnit
    /\ sys = NoSys
    /\ bash = NoBash
    /\ run = NoRun
    /\ hp = NoHelps
    /\ \E c \in
          {[fn |-> "parse_one_page", args |-> <<content>>] : content \in TextsOf(MaxText)}
          \cup {[fn |-> "parse_manpage_number", args |-> <<path>>] : path \in ManPaths}
          \cup {[fn |-> "get_os_commands", args |-> <<output>>] : output \in SortedOutputs}
          \cup {[fn |-> "remove_already_found_cmds",
                 args |-> <<get_os_commands(output), cmds_in_db>>] :
                    output \in SortedOutputs,
                    cmds_in_db \in UNION {[1..n -> {"cd", "ls", "dir"}] : n \in 0..MaxStored}} :
          call = [pc |-> "called", fn |-> c.fn, args |-> c.args, result |-> << >>]

CallParseOnePage ==
    /\ call.pc = "called"
    /\ call.fn = "parse_one_page"
    /\ call' = [call EXCEPT !.pc = "returned", !.result = parse_one_page(call.args[1])]
    /\ UNCHANGED <<db, current_os_id, unit, sys, bash, run, hp>>

CallParseManpageNumber ==
    /\ call.pc = "called"
    /\ call.fn = "parse_manpage_number"
    /\ call' = [call EXCEPT !.pc = "returned",
                            !.result = parse_manpage_number(call.args[1])]
    /\ UNCHANGED <<db, current_os_id, unit, sys, bash, run, hp>>

CallGetOsCommands ==
    /\ call.pc = "called"
    /\ call.fn = "get_os_commands"
    /\ call' = [call EXCEPT !.pc = "returned", !.result = get_os_commands(call.args[1])]
    /\ UNCHANGED <<db, current_os_id, unit, sys, bash, run, hp>>

CallRemoveAlreadyFound ==
    /\ call.pc = "called"
    /\ call.fn = "remove_already_found_cmds"
    /\ call' = [call EXCEPT !.pc = "returned",
                            !.result = remove_already_found_cmds(call.args[1],
                                                                 call.args[2])]
    /\ UNCHANGED <<db, current_os_id, unit, sys, bash, run, hp>>

CallsNext ==
    \/ CallParseOnePage
    \/ CallParseManpageNumber
    \/ CallGetOsCommands
    \/ CallRemoveAlreadyFound

SpecCalls == CallsInit /\ [][CallsNext]_vars

\* ------------------------------------------------------------------------
\* The claims
\* ------------------------------------------------------------------------

\* C1 (replace on reparse): a call of handle_command with the tuple of the
\* call before it returns the id that call returned, and when
\* put_manpage_into_db has run to its end the switches its command id owns
\* are exactly those of its flags_list, whatever the id owned before.
C1_ReplaceOnReparse ==
    /\ unit.again => unit.id = unit.last_id
    /\ (unit.state = "done" /\ unit.kind = "put")
           => SwitchesOf(db, unit.id) = Range(unit.flags)

\* A put has completed right after a completed put under the same tuple,
\* whose switches were not all among the new ones.
C1_Witness ==
    /\ unit.state = "done" /\ unit.kind = "put"
    /\ unit.again /\ unit.last_put /\ unit.stale

\* C3 (atomic write unit): when a run has ended inside a write unit the
\* store shows the state before the unit (the command was there and owns
\* what it owned) or the state after it (the command owns flags_list).
C3_WriteUnitAtomic ==
    unit.state = "failed" =>
        \/ unit.found /\ SwitchesOf(db, unit.id) = unit.old
        \/ SwitchesOf(db, unit.id) = Range(unit.flags)

\* C4 (one row per system): no two rows of the system table hold the same
\* name, a name handle_system was called with has its row, every call
\* returns the id the first call with its name returned, none raises, and
\* a call with a stored name adds no row.
C4_SystemFindOrCreate ==
    /\ \A i, j \in 1..Len(db.system) :
           db.system[i].name = db.system[j].name => i = j
    /\ \A n \in SystemNames :
           sys.ret[n] # 0 =>
               Cardinality({i \in 1..Len(db.system) : db.system[i].name = TextV(n)}) = 1
    /\ sys.name # "" =>
           /\ sys.id = sys.ret[sys.name]
           /\ ~ sys.raised
           /\ sys.known => ~ sys.grew

\* handle_system has been called with a name stored before a later one.
C4_Witness ==
    /\ sys.known
    /\ sys.id < Len(db.system)

\* The identity tuple of a row of the command table
RowTuple(row) == <<row.command, row.man_group, row.system_id>>

\* C5 (one row per tuple): no two rows of the command table hold the same
\* command, group and system id.
C5_OneRowPerTuple ==
    \A i, j \in 1..Len(db.command) :
        RowTuple(db.command[i]) = RowTuple(db.command[j]) => i = j

\* handle_command, called with the number 1 by parse_bash_page, has found the
\* row a manual page was stored in under the text "1".
C5_Witness ==
    /\ unit.tuple[2] = IntV(1)
    /\ unit.found
    /\ db.command[unit.id].manpage_name # Null
    /\ db.command[unit.id].man_group = TextV("1")

\* C6 (no duplicate switch): no row of the switch table is there twice.
C6_NoDuplicateSwitch ==
    \A r \in BagToSet(db.switch) : CopiesIn(r, db.switch) = 1

\* A put has completed for a text that names a switch twice, on a command
\* that owned switches before.
C6_Witness ==
    /\ unit.state = "done" /\ unit.kind = "put"
    /\ unit.flags = FlagsOfText[TextAB]
    /\ Len(ParsedFlags(FindAll(TextAB, 1))) > Len(unit.flags)
    /\ unit.found /\ unit.again
    /\ SwitchesOf(db, unit.id) = Range(unit.flags)

\* C2 (no reprocessing within a run): no command row that holds switches
\* extracted from a manual page in this run, a builtin of the bash page
\* included, is handled by the enumeration steps, and when main has ended
\* each such row owns exactly the switches extracted from its page.
C2_ManualPagesNotReprocessed ==
    \A t \in DOMAIN run.extracted :
        /\ find_command(db, t[1], t[2], current_os_id) \notin run.enumerated
        /\ run.pc = "done" =>
               SwitchesOf(db, find_command(db, t[1], t[2], current_os_id))
                   = run.extracted[t]

\* The lines i..j of a page put one behind the other, as the loop does
RECURSIVE ConcatLines(_, _, _)
ConcatLines(lines, i, j) ==
    IF i > j THEN "" ELSE lines[i] \o ConcatLines(lines, i + 1, j)

\* In the page of the splitter model: the line SHELL BUILTIN COMMANDS, the
\* section line that ends the builtins section, the header lines of known
\* names between the two, the last header line of a name, and where the
\* text behind a header line stops (at the next header line or at the
\* section line).
HeaderAt == MinOf({i \in 1..Len(bash.lines) : ShellBuiltinsMatch(bash.lines[i])})

SectionAt ==
    LET h == HeaderAt
    IN  MinOf({i \in 1..Len(bash.lines) :
                 /\ i > h
                 /\ ~ BuiltinRegMatch(bash.lines[i])
                 /\ SectionEndMatch(bash.lines[i])})

Recognized ==
    LET h == HeaderAt
        e == SectionAt
    IN  {i \in 1..Len(bash.lines) :
            /\ h < i /\ i < e
            /\ BuiltinRegMatch(bash.lines[i])
            /\ InList(FirstWord(bash.lines[i]), BashBuiltins)}

LastHeaderOf(name) ==
    CHOOSE i \in Recognized :
        /\ FirstWord(bash.lines[i]) = name
        /\ \A j \in Recognized : FirstWord(bash.lines[j]) = name => j <= i

StopBehind(i) == MinOf({j \in Recognized \cup {SectionAt} : j > i})

\* C9 (partition of the bash page): for a page with the line SHELL BUILTIN
\* COMMANDS and a section line behind it, the loop leaves one sub-document
\* for bash, made of the lines before the builtins section, and one for
\* every known name that heads a line of the section, made of the name and
\* the lines between its header and the next recognized header or the
\* section line; nothing at or behind the section line is in any of them;
\* and parse_bash_page stores one command for each of them.
C9_BashPartition ==
    (bash.pc \in {"store", "done"} /\ HeaderAt # 0 /\ SectionAt # 0) =>
        /\ DOMAIN bash.st.mans =
               {"bash"} \cup {FirstWord(bash.lines[i]) : i \in Recognized}
        /\ bash.st.mans["bash"] = ConcatLines(bash.lines, 1, HeaderAt - 1)
        /\ \A name \in DOMAIN bash.st.mans \ {"bash"} :
               bash.st.mans[name] =
                   name \o ConcatLines(bash.lines, LastHeaderOf(name) + 1,
                                       StopBehind(LastHeaderOf(name)) - 1)
        /\ bash.pc = "done" =>
               /\ Len(db.command) = Cardinality(DOMAIN bash.st.mans)
               /\ {db.command[i].command : i \in 1..Len(db.command)} =
                      {TextV(name) : name \in DOMAIN bash.st.mans}

\* parse_bash_page has returned for a page with both known names as headers,
\* text behind the header of cd, and a header line of bg behind the section
\* line.
C9_Witness ==
    /\ bash.pc = "done"
    /\ HeaderAt # 0 /\ SectionAt # 0
    /\ SectionAt < Len(bash.lines)
    /\ DOMAIN bash.st.mans = {"bash", "cd", "bg"}
    /\ bash.st.mans["cd"] # "cd"
    /\ bash.st.mans["bash"] # ""

\* C10 (the header line seeds the sub-document): right after the pass over
\* a header line of a known name the text of that name is the whole line,
\* and the switches stored for a builtin include those written on its header
\* line.
C10_HeaderLineSeeds ==
    /\ (bash.pc = "scan" /\ bash.header) =>
           bash.st.mans[FirstWord(bash.last)] = bash.last
    /\ (bash.pc \in {"store", "done"} /\ HeaderAt # 0 /\ SectionAt # 0) =>
           \A name \in DOMAIN bash.flags \ {"bash"} :
               Range(parse_one_page(bash.lines[LastHeaderOf(name)]))
                   \subseteq Range(bash.flags[name])

\* C7 (no stale kill): the timer of a pass never calls kill when the
\* process of the pass has ended and the main thread has gone on from the
\* pass, so no process of a later pass is ended by it either.
C7_NoStaleKill ==
    /\ ~ hp.stale
    /\ hp.hit = {}

\* The pass of the loop in which a command was taken
PassOf(cmd) == CHOOSE i \in 1..Len(hp.cmds) : hp.cmds[i] = cmd

\* C8 (a command that cannot be started is skipped): for a command whose
\* Popen raised OSError the call writes nothing (it is not handed to
\* put_manpage_into_db and owns no switch), its pass has no process and no
\* timer and every timer started before it has been cancelled; and the call
\* returns only when every command of the list has failed so or been
\* written.
C8_OSErrorSkipsCommand ==
    /\ \A cmd \in hp.failed :
           /\ cmd \notin hp.written
           /\ cmd \notin DOMAIN hp.helps
           /\ SwitchesOf(db, find_command(db, TextV(cmd), None, current_os_id)) = {}
           /\ hp.proc[PassOf(cmd)] = "none"
           /\ hp.timer[PassOf(cmd)] = "none"
           /\ \A j \in 1..(PassOf(cmd) - 1) :
                  hp.timer[j] # "none" => hp.finished[j]
    /\ hp.pc = "return" =>
           /\ hp.failed \cup hp.written = Range(hp.cmds)
           /\ hp.failed = hp.broken

\* The call has returned; its first command could not be started, a later
\* one was written with switches.
C8_Witness ==
    /\ hp.pc = "return"
    /\ Len(hp.cmds) > 1
    /\ hp.cmds[1] \in hp.failed
    /\ \E cmd \in hp.written :
           SwitchesOf(db, find_command(db, TextV(cmd), None, current_os_id)) # {}

\* A stub (its content starts with ".so") whose target reference is missing
\* or whose path gives no name
StubUnresolved(file_path) ==
    /\ IsStub(ReadFile(file_path).raw)
    /\ \/ NewFile(ReadFile(file_path).raw) = None
       \/ RegName(file_path) = None

\* C11 (indirection failure is recovered): when the file the loop of
\* parse_man_pages has just handled is a stub whose target is missing or
\* cannot be parsed, parse_man_pages has not raised, the page is recorded
\* among the commands stored, and the loop goes on with the later files.
C11_StubFallsBack ==
    (run.pc \notin {"off", "open", "raised", "start"} /\ run.file_path # ""
         /\ StubUnresolved(run.file_path))
        => (run.pc # "crashed" /\ run.handled_cmds # << >>)

\* C12 (store schema mismatch is fatal): when the database file exists and
\* lacks one of the tables system, command and switch, main never gets past
\* open_db: handle_system has not run, no page has been handled, and the
\* rows of the file are those it held when main was entered.
C12_SchemaMismatchAborts ==
    (run.db_exists /\ ~ (SchemaTables \subseteq run.tables))
        => /\ run.pc \in {"open", "raised"}
           /\ db = RowsIn(EarlierRunDb, run.tables)
           /\ current_os_id = 0
           /\ run.file_path = "" /\ run.handled_cmds = << >>
           /\ run.extracted = << >> /\ run.enumerated = {}

\* open_db has raised on a file that holds command rows of an earlier run
\* and no switch table
C12_Witness ==
    /\ run.pc = "raised"
    /\ "switch" \notin run.tables
    /\ db.command # << >>

\* C13 (post-filter): every switch parse_one_page returns holds a letter, a
\* digit, '#' or '?', or is exactly '--'; a candidate made of hyphens and
\* plus signs only, other than '--', is never returned.
C13_PostFilterRejectsPunctuation ==
    (call.pc = "returned" /\ call.fn = "parse_one_page")
        => \A i \in 1..Len(call.result) :
              \/ call.result[i] = "--"
              \/ \E j \in 1..Len(call.result[i]) :
                    Char(call.result[i], j) \in Lowers \cup Uppers \cup Digits \cup {"#", "?"}

\* The digits d for which the path has a directory segment "man" d
DirDigits(path) ==
    {d \in Digits : \E i \in 1..(Len(path) - 5) :
                        SubSeq(path, i, i + 5) = "/man" \o d \o "/"}

\* C14 (section number): parse_manpage_number returns the digit of the
\* directory segment "man" plus digit of the path, whatever the file name
\* is, and no section when the path has no such directory segment.
C14_SectionIsDirectoryDigit ==
    (call.pc = "returned" /\ call.fn = "parse_manpage_number")
        => IF DirDigits(call.args[1]) = {} THEN call.result = None
           ELSE call.result \in {TextV(d) : d \in DirDigits(call.args[1])}

\* The switch rows a command id owns are the first k flags of a list, each
\* of them once
OwnsFirst(command_id, flags_list, k) ==
    /\ SwitchesOf(db, command_id) = {flags_list[i] : i \in 1..k}
    /\ \A r \in BagToSet(db.switch) :
           r.command_id = IntV(command_id) => CopiesIn(r, db.switch) = 1

\* C15 (single source document): in every state of a write unit, the
\* states in which the run has ended inside it included, the command of the
\* unit owns exactly the flags of the document being written that have
\* been added so far and nothing of what it owned before; and every command
\* row of the store owns switches of one document only, all of them or the
\* first of them.
C15_SingleSourceDocument ==
    /\ unit.state = "adding"
           => OwnsFirst(unit.id, unit.flags, Len(unit.flags) - Len(unit.pending))
    /\ unit.state = "failed"
           => \E k \in 0..(Len(unit.flags) - 1) : OwnsFirst(unit.id, unit.flags, k)
    /\ \A id \in 1..Len(db.command) :
           \E page \in PageTexts :
               \E k \in 0..Len(FlagsOfText[page]) : OwnsFirst(id, FlagsOfText[page], k)

\* A run has ended inside the write unit of a command that owned the
\* switches of another document, after the first switch of the new document
\* and before its last
C15_Witness ==
    /\ unit.state = "failed"
    /\ unit.found
    /\ unit.old # {}
    /\ unit.old # Range(unit.flags)
    /\ SwitchesOf(db, unit.id) # {}
    /\ SwitchesOf(db, unit.id) # Range(unit.flags)

\* The rows of a table are still there, with their ids and what they hold
StillThere(before, after) ==
    /\ Len(before) <= Len(after)
    /\ \A i \in 1..Len(before) : after[i] = before[i]

\* C16 (frame of re-sight): no step deletes or changes a row of the system
\* table or of the command table; and a call of handle_command that finds
\* the row of its tuple (the step that opens a write unit, which has all of
\* its flags_list still to add) leaves both tables as they are and removes
\* no switch row but those of the id it returns.
C16_FrameOfResight ==
    [][/\ StillThere(db.system, db'.system)
       /\ StillThere(db.command, db'.command)
       /\ (/\ unit'.state \in {"adding", "done"}
           /\ unit'.pending = unit'.flags
           /\ unit'.found)
              => /\ db'.system = db.system
                 /\ db'.command = db.command
                 /\ \A r \in BagToSet(db.switch) \cup BagToSet(db'.switch) :
                        r.command_id # IntV(unit'.id)
                            => CopiesIn(r, db'.switch) = CopiesIn(r, db.switch)
                 /\ SwitchesOf(db', unit'.id) = {}]_vars

\* handle_command has found a row that owned switches, in a store where
\* another command owns switches, too
C16_Witness ==
    /\ unit.state = "adding"
    /\ unit.found
    /\ unit.old # {}
    /\ unit.pending = unit.flags
    /\ \E id \in 1..Len(db.command) : id # unit.id /\ SwitchesOf(db, id) # {}

\* A line indented by 6 to 8 spaces whose identifier is a known command
KnownHeader(line) ==
    /\ Indent(line) \in 6..8
    /\ InList(FirstWord(line), BashBuiltins)

\* C17 (lines that are no header): a pass of the scanning state over a line
\* that is no header of a known command and starts with no uppercase letter
\* appends the line to the text of the current builtin and to nothing
\* else; it starts no sub-document, does not end the scan, and when no
\* builtin is current yet it changes no text at all, that of bash included.
C17_OtherLinesAppend ==
    [][(/\ BashScanLine
        /\ bash.st.builtins
        /\ ~ KnownHeader(Head(bash.rest))
        /\ Char(Head(bash.rest), 1) \notin Uppers)
           => /\ bash'.st.builtins /\ ~ bash'.st.stopped
              /\ bash'.st.current_builtin = bash.st.current_builtin
              /\ bash'.st.bash_man = bash.st.bash_man
              /\ DOMAIN bash'.st.mans = DOMAIN bash.st.mans
              /\ \A k \in DOMAIN bash.st.mans :
                     bash'.st.mans[k] =
                         IF k = bash.st.current_builtin
                         THEN bash.st.mans[k] \o Head(bash.rest)
                         ELSE bash.st.mans[k]]_vars

\* The header line of an unknown name has been appended to the text of cd,
\* which was current
C17_Witness ==
    /\ bash.pc = "scan"
    /\ bash.last = "       x -z"
    /\ bash.st.current_builtin = "cd"
    /\ bash.st.mans["cd"] = "cd" \o "       x -z"

\* The lines scanned so far, and among them the header lines of a name in
\* the builtins section
Scanned == Len(bash.lines) - Len(bash.rest)

HeadersOf(name) ==
    LET h == HeaderAt
        e == SectionAt
    IN  {i \in 1..Scanned :
            /\ h # 0 /\ h < i
            /\ e = 0 \/ i < e
            /\ KnownHeader(bash.lines[i])
            /\ FirstWord(bash.lines[i]) = name}

\* The lines of the section behind line i, up to the next header line of a
\* known name, the section line or the last line scanned
TextBehind(i) ==
    LET e == SectionAt
    IN  ConcatLines(bash.lines, i + 1,
                    MinOf({j \in (i + 1)..(Scanned + 1) :
                             \/ j = Scanned + 1
                             \/ j = e
                             \/ KnownHeader(bash.lines[j])}) - 1)

\* C19 (a repeated header restarts the sub-document): right after the pass
\* over a header line of a name that had a header line before, the text of
\* the name is the name alone; and at every point of the scan and behind it
\* the text of a name is the name and the lines behind its last header
\* line, with nothing of what followed an earlier one.
C19_RepeatedHeaderRestarts ==
    /\ (bash.pc = "scan" /\ bash.header
            /\ Cardinality(HeadersOf(FirstWord(bash.last))) >= 2)
           => bash.st.mans[FirstWord(bash.last)] = FirstWord(bash.last)
    /\ \A name \in DOMAIN bash.st.mans :
           LET headers == HeadersOf(name)
           IN  Cardinality(headers) >= 2
                   => bash.st.mans[name] = name \o TextBehind(MaxOf(headers))

\* parse_bash_page has returned for a page in which cd has two header
\* lines with text between them, and the text of cd holds none of it
C19_Witness ==
    /\ bash.pc = "done"
    /\ Cardinality(HeadersOf("cd")) = 2
    /\ TextBehind(MinOf(HeadersOf("cd"))) # ""
    /\ bash.st.mans["cd"] = "cd"

\* Some line of the page is exactly SHELL BUILTIN COMMANDS
HasBuiltinsLine == \E i \in 1..Len(bash.lines) : bash.lines[i] = "SHELL BUILTIN COMMANDS"

\* C20 (bash is stored iff the page has the line): when parse_bash_page has
\* returned, the command bash is stored if and only if some line of the
\* page is exactly SHELL BUILTIN COMMANDS; on a page without the line the
\* splitter never leaves the preamble state, its dictionary stays empty, and
\* no command and no switch is written.
C20_BashStoredIffBuiltinsLine ==
    /\ bash.pc = "done"
           => (HasBuiltinsLine <=>
                  \E i \in 1..Len(db.command) : db.command[i].command = TextV("bash"))
    /\ ~ HasBuiltinsLine
           => /\ ~ bash.st.builtins
              /\ bash.st.mans = << >>
              /\ db.command = << >>
              /\ db.switch = EmptyBag

\* parse_bash_page has returned for a page that has header lines of known
\* names and a section line but not the line SHELL BUILTIN COMMANDS
C20_Witness ==
    /\ bash.pc = "done"
    /\ ~ HasBuiltinsLine
    /\ \E i \in 1..Len(bash.lines) : KnownHeader(bash.lines[i])
    /\ \E i \in 1..Len(bash.lines) : bash.lines[i] = "SEE"
    /\ bash.st.bash_man # ""

\* The entries of a list that are not in another, in their order
RECURSIVE Without(_, _)
Without(cmds, cmds_in_db) ==
    IF cmds = << >> THEN << >>
    ELSE (IF InList(Head(cmds), cmds_in_db) THEN << >> ELSE <<Head(cmds)>>)
         \o Without(Tail(cmds), cmds_in_db)

\* C18 (set difference): what remove_already_found_cmds leaves of the list
\* of discovered commands is the list without every entry that is in
\* cmds_in_db: no entry of cmds_in_db is left, and every other entry is
\* kept, in its place.
C18_LeavesSetDifference ==
    (call.pc = "returned" /\ call.fn = "remove_already_found_cmds")
        => /\ call.result = Without(call.args[1], call.args[2])
           /\ Range(call.result) = Range(call.args[1]) \ Range(call.args[2])

\* remove_already_found_cmds has returned for a list in which two entries
\* to remove are next to each other, with an entry behind them to keep,
\* and a cmds_in_db that names both
C18_Witness ==
    /\ call.pc = "returned" /\ call.fn = "remove_already_found_cmds"
    /\ \E i \in 1..(Len(call.args[1]) - 2) :
          /\ call.args[1][i] = "cd" /\ call.args[1][i + 1] = "ls"
          /\ ~ InList(call.args[1][i + 2], call.args[2])
    /\ Range(call.args[2]) = {"cd", "ls"}
    /\ call.result # << >>

\* C21 (the filter of get_os_commands): every entry of the list
\* get_os_commands returns starts with an ASCII letter, whatever compgen
\* printed, entries without a leading letter next to each other included.
C21_EntriesStartWithLetter ==
    (call.pc = "returned" /\ call.fn = "get_os_commands")
        => \A i \in 1..Len(call.result) :
              Char(call.result[i], 1) \in Lowers \cup Uppers

\* The ids of the rows of a store that hold a command for a system
RowsOf(store, command, os_id) ==
    {i \in 1..Len(store.command) :
        /\ store.command[i].command = command
        /\ store.command[i].system_id = IntV(os_id)}

\* C22 (identity degradation): a call of handle_command without a group
\* (the step that opens a write unit), for a command whose rows for the
\* system all hold a manual section, adds no row, returns the id of one of
\* these rows and leaves it without switches; a pass of store_cmds_to_db
\* over such a command ends with the command owning no switch.
C22_NoGroupHitsSectionedRow ==
    [][(/\ unit' # unit
        /\ unit'.state \in {"adding", "done"}
        /\ unit'.pending = unit'.flags
        /\ unit'.tuple[2] = None
        /\ RowsOf(db, unit'.tuple[1], unit'.tuple[3]) # {}
        /\ \A i \in RowsOf(db, unit'.tuple[1], unit'.tuple[3]) :
               db.command[i].man_group # Null)
           => /\ db'.command = db.command
              /\ unit'.found
              /\ unit'.id \in RowsOf(db, unit'.tuple[1], unit'.tuple[3])
              /\ SwitchesOf(db', unit'.id) = {}
              /\ unit'.kind = "store" => unit'.state = "done"]_vars

\* A pass of store_cmds_to_db has found the row a manual page of section 1
\* was stored in, which owned switches, and has left it without any
C22_Witness ==
    /\ unit.kind = "store" /\ unit.state = "done"
    /\ unit.tuple[2] = None
    /\ unit.found /\ unit.stale
    /\ db.command[unit.id].man_group = TextV("1")
    /\ db.command[unit.id].manpage_name # Null
    /\ Cardinality(RowsOf(db, unit.tuple[1], unit.tuple[3])) = 1
    /\ SwitchesOf(db, unit.id) = {}


====
